\* Three switches, seven descriptors of which five fit a descriptor set, two
\* options.
SPECIFICATION Spec
CONSTANTS
    Conns = {c1, c2, c3}
    MaxFd = 7
    FD_SETSIZE = 5
    MaxOptions = 2
    Parent = Parent
    Free = Free
CHECK_DEADLOCK FALSE
INVARIANTS DescriptorsExact ChildHasItsSwitch
PROPERTY BacklogServed
