CONSTANTS
    ServerCaps = {2147483647, 41477, 33280, 63487, 32773}
    Names <- MCNames
    Hosts <- MCHosts
    Ports = {3306, 65535}
SPECIFICATION Spec
INVARIANTS
    HandshakeCorrect
    AuthResponseCorrect
    CommandsCorrect
