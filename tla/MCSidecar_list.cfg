SPECIFICATION Spec
CONSTANT Modes = {"shell"}
INVARIANT NoCrash
