\* Every operation, three sessions at a time; two bundles are approved already,
\* so that two activations can wait for each other's prior bundle.
SPECIFICATION Spec
CONSTANTS
    Sessions = {s1, s2, s3}
    Authored = {b1, b2, b3}
    Defaults = {d1, d2}
    Actors = {x, y}
    None = None
    Ops = {"propose", "review", "approve", "activate", "supersede", "bootstrap"}
    Approved = {b1, b2}
    MaxCalls = 4
SYMMETRY Alike
INVARIANT TypeOK
INVARIANT OneActive
INVARIANT StatusIsBacked
PROPERTY ActivationIsWhole
