SPECIFICATION Spec
CONSTANTS
    None = None
    p1 = p1
    p2 = p2
    p3 = p3
    p4 = p4
    Processes <- MCProcesses
    Secrets <- MCSecrets
    SecretOf <- MCSecretOf
SYMMETRY ProcessSymmetry
INVARIANTS
    TypeOK
    WritersAlone
    IdentityKept
    AdministratorKept
    OneKey
PROPERTY
    RefusedUntouched
\* When every process of the instance has ended, nothing happens any more.
CHECK_DEADLOCK FALSE
