\* Two calls of two users, OpenAI with Gemini standing by and one fault: the
\* quota is passed by calls at once, answers come from either provider.
CONSTANTS
    Calls = {c1, c2}
    Users = {u1, u2}
    UserMax = 1
    OrgMaxes = {2}
    Primary = "openai"
    Fallback = "gemini"
    FallbackOn = TRUE
    Requested = {"ollama"}
    MaxAnswers = 2
    MaxFaults = 1
SPECIFICATION Spec
INVARIANTS TypeOK QuotaBounded CountersExpire AnswersAccounted
SYMMETRY NameSymmetry
