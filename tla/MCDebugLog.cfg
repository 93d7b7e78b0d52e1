SPECIFICATION FairSpec
CONSTANTS
    MaxChunk = 4
    MaxKills = 2
INVARIANTS LogInv NoMissedOutput AttachGlitchIsBounded
PROPERTIES TailUnblocks DetachUnblocks
