SPECIFICATION Spec
CONSTANTS
    Files = {f1, f2}
    Deployments = {d1, d2}
    MaxVersion = 3
    Kills = {TRUE, FALSE}
INVARIANTS DeployInv
PROPERTIES RollbackRestores SuccessIsServed
SYMMETRY DeploySymmetry
