SPECIFICATION Spec
CONSTANTS
  Chunks = {c1}
  Manifests = {signed}
  None = None
PROPERTY
  CatalogIsReadOnly
