\* Three errors, two detail keys, two codes, and both kinds of foreign
\* cause: every chain of at most three *Errors, with any interleaving of
\* With, WithCode, GRPCStatus and SetGRPCDebugMode on its members.
CONSTANTS
    Errs = {e1, e2, e3}
    Keys = {k1}
    Codes = {5}
    ForeignPlain = plain
    ForeignGrpc = grpc
    ForeignCode = 14
SPECIFICATION Spec
INVARIANTS TypeOK OwnStatusCurrent
