\* The parser against the grammar, and what is read against what is written.
SPECIFICATION JsonSpec
CONSTANTS
    Documents <- MCDocuments
    Alphabet <- MCAlphabet
    ShortLength = 9
    SlipLength = 14
INVARIANTS
    ReadsAsDenoted
    StringsComeBack
    EscapesAreUtf8
\* A body is read once.
CHECK_DEADLOCK FALSE
