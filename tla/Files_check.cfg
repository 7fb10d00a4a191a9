SPECIFICATION Spec
INVARIANT TypeOK OneKeyAway 
PROPERTY RenamedMeansCopied
CONSTANTS
    s1 = s1
    owner = owner
    Services = {s1}
    Owner = owner
    MaxKey = 3
