\* A video whose download fails is requested again meanwhile.
SPECIFICATION Spec
CONSTANTS
  h1 = h1
  v1 = v1
  Handlers = {h1}
  Videos = {v1}
  NoVideo = NoVideo
  Events = {"fail"}
INVARIANT BusyHasOwner
