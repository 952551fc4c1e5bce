SPECIFICATION Spec
CONSTANTS
    LeafMax = 1
    Chars = {"a", "nl"}
    Typed = {"a"}
    Blanks <- MCBlanks
    Files <- MCFiles
    Clips <- MCClips
    UndoCap = 2
    MaxLen = 6
    MaxEdits = 2
    Buffers <- Ropes
    new <- EmptyLeaf
    from_slice <- BuildRope
    insert <- Insert
    delete <- Delete
    len <- TextLen
    slice <- Slice
    to_slice <- ToSlice
    join_nodes <- MCJoinNodes
    split_node <- MCSplitNode
    pair <- MCPair
    collect_range <- MCCollectRange
    char_at_node <- MCCharAtNode
    count_newlines_before <- MCCountNewlinesBefore
    nth_newline_pos_raw <- MCNthNewlinePosRaw
    text <- MCText
    avl <- MCAVL
INVARIANTS
    ActsAsText
    Balanced
PROPERTIES
    UndoRestores
    FlagsAreTrue
CHECK_DEADLOCK FALSE
