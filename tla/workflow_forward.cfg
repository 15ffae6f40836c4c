\* An activation that has read an approved bundle overwrites a revoked one.
SPECIFICATION Spec
CONSTANTS
    Sessions = {s1, s2}
    Authored = {b1}
    Defaults = {}
    Actors = {x}
    None = None
    Ops = {"activate", "supersede"}
    Approved = {b1}
    MaxCalls = 3
SYMMETRY Alike
PROPERTY ForwardOnly
