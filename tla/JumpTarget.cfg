SPECIFICATION UnitsSpec
CONSTANT XLEN = 4
INVARIANT JumpsAgree
