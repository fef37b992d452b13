SPECIFICATION Spec

CONSTANTS
    a = a
    quoted = quoted
    group1 = group1
    group2 = group2
    link1 = link1
    link2 = link2
    link3 = link3
    Node <- MCNode
    Group <- MCGroup
    Text <- MCText
    Normal <- MCNormal
    Row <- MCRow
    Member <- MCMember
    Tag <- MCTag
    None = nothing

INVARIANTS
    TypeOK
    NamesUnique
    FiltersExact

PROPERTIES
    NamingEnds
