\* One process of each service.
SPECIFICATION ProcessSpec
INVARIANTS NothingOutlivesWhatItUses
PROPERTIES ProcessEnds
CHECK_DEADLOCK FALSE
