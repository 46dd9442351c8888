SPECIFICATION FairSpec
CONSTANTS
    Fds = {3, 4, 6, 7}
    server_socket = 4
    MaxBacklog = 2
INVARIANTS
    ViewsAgree
    FdmaxIsMax
    NeverBlocks
PROPERTIES
    RequestServed
