SPECIFICATION Spec
CONSTANTS
    Decision = {d1}
    Token = {t1}
    Reason = {r1}
    File = {}
    Design = {g1}
    Outcome = {"ELIGIBLE"}
    Verdict = {"PASS"}
    Handler = {h1, h2}
    Calls = {"template", "issue", "revoke", "verify"}
    Draws = 2
    MaxVersions = 1
SYMMETRY Handlers
INVARIANT VerifyGivesReason
