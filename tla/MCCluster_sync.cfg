\* README.md:302, two gateways.
SPECIFICATION Spec
CONSTANTS
    Gateway = {east, west}
    Avatar = {ann, bob}
SYMMETRY GatewaysAndAvatars
INVARIANTS
    NodesInSync
