\* The same bounds: does the status of every error carry its own detail?
CONSTANTS
    Errs = {e1, e2, e3}
    Keys = {k1}
    Codes = {5}
    ForeignPlain = plain
    ForeignGrpc = grpc
    ForeignCode = 14
SPECIFICATION Spec
INVARIANTS WrapperDetailReported
