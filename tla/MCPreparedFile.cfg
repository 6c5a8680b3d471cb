CONSTANTS
    plain = plain
    secret = secret
    n1 = n1
    n2 = n2
    n3 = n3
    Old = Old
    Nobody = Nobody
    Writers <- MCWriters
    Secret = {secret}
    Names <- MCNames
    Tries = 2
SPECIFICATION Spec
INVARIANTS
    DestinationWhole
    SecretStaysPrivate
    LeftoversAreComplete
