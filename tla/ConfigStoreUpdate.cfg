SPECIFICATION Spec

CONSTANTS
    config = config
    routing = routing
    base = base
    small = small
    large = large
    proxy = proxy
    media = media
    g1 = g1
    g2 = g2
    g3 = g3
    provider = provider
    own1 = own1
    own2 = own2
    fed1 = fed1
    fed2 = fed2
    link1 = link1
    link2 = link2
    random = random
    fixed = fixed
    Kind = {config, routing}
    Row <- MCRow
    KindOf <- MCKindOf
    Name <- MCName
    Uses <- MCUses
    Group = {g1, g2, g3}
    Policy = {random, fixed}
    Fixed = fixed
    Sub = {provider}
    Node = {own1, fed1, fed2}
    Owner <- MCOwner
    Matching = {fed2}
    Link = {link1, link2}
    FirstRow = {base, small}
    FirstSelected = {base, small}
    FirstGroup <- MCFirstGroup
    FirstLink <- MCFirstLink
    Gone = gone
    MaxEdit = 2
    None = nothing

PROPERTIES
    NodeChangeTold
