\* Two damages of every seed; the longest payload has its operation header and a body.
SPECIFICATION Spec
CONSTANTS
  IdBits = 5
  MaxPayloadBytes = 41
  Seeds <- MCSeeds
  Misuses <- MCMisuses
  MaxDamage = 2
INVARIANTS
  TypeOK
  AcceptedIsCanonical
  OneDamageKeepsOutcome
