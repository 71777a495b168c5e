SPECIFICATION Spec
CONSTANTS
    A = A
    B = B
    C = C
    D = D
    E = E
    Names <- MCNames
    Documents <- MCDocuments
    Orders <- MCOrders
INVARIANTS OrderDecidesNothing FiniteTypes BackEdgesAgree
PROPERTY PassesEnd
