SPECIFICATION Spec
CONSTANTS
    Repeating <- MCRepeating
    Batching <- MCBatching
    Crashing <- MCCrashing
    Rolling <- MCRolling
    Upgrading <- MCUpgrading
    Mistaken <- MCMistaken
CHECK_DEADLOCK FALSE
INVARIANTS WithinCapacity NoOrphans ReadsHold PinsResolve
PROPERTIES WakeupsHold DelegationHolds
