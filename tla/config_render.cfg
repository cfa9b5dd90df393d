SPECIFICATION RenderSpec
CONSTANTS
    Names = {"a", "b", "c", "d", "e", "x", "port", "80"}
    Scalars = {"0", "1", "2", "nil", "<nil>", "list", "[]", "2^53", "2^53+1", "9e+15"}
    Lists = {"list"}
    Float64 <- MCFloat64
    Sprint <- MCSprint
    PlainNames = {"a", "b", "c", "d", "e", "x", "port"}
    Nil = "nil"
    Kinds = {"structured", "properties", "other"}
    Overrides <- MCOverrides
    Trees <- MCTrees
    Texts <- MCTexts
    FileTags <- MCFileTags
    Targets <- MCTargets
CHECK_DEADLOCK FALSE
INVARIANT RendersWhatIsAsked
INVARIANT PreviewIsDelivered
INVARIANT DiffIsExact
INVARIANT AcceptedIsUsable
