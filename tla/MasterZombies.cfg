CONSTANT ProcessNums = 3
SPECIFICATION Spec
INVARIANT AllReaped
