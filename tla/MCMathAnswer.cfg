SPECIFICATION Spec
CONSTANTS
    MaxLength = 5
    Alphabet = {"0", "1", " ", "nl", "boxed{", "####", "{", "}", ".", ",", "-", "$", "X"}
INVARIANTS LastBoxWins SpellingsAgree SolutionIsCorrect
