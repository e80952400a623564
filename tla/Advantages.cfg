\* "alignment": every pair of decodings of at most three characters and three
\* tokens, unstable and repeated boundaries included; a chunk of three tokens is
\* large.  A batch comes to its end, so a deadlock is the end of the run.
SPECIFICATION MCSpec
CONSTANTS
    Chars = {a, b}
    MaxChars = 3
    MaxTokens = 3
    LargeChunk = 2
    ClipAfter = 1
    SuperviseEos = TRUE
    Prompts = {p1, p2, p3}
INVARIANTS TeacherScoresResponse AlignmentIsExact RowIsSound CreditIsFair
    TokensGetTheirs GroupsAreFair
CHECK_DEADLOCK FALSE
