SPECIFICATION Spec
CONSTANT Modes = {"docker"}
INVARIANT NoCrash
