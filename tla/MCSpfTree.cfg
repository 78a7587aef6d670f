\* Three names: diamonds, cycles, redirects, broken and missing targets, with
\* room for the whole tree, or limits that stop the walk at a term, at a redirect,
\* or for its depth.
SPECIFICATION FairSpec
CONSTANTS
    r = r
    x = x
    y = y
    Names = {r, x, y}
    Root = r
    NoName = NoName
    Records <- Shapes
    Limits <- Tight
INVARIANTS ExactTermsMatchTree BrokenAreReal CyclesAreReal CleanMeansClean LimitVerdict WorkBounded
PROPERTIES Terminates
CHECK_DEADLOCK FALSE
