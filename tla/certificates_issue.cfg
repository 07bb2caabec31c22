SPECIFICATION Spec
CONSTANTS
    Decision = {d1}
    Token = {t1}
    Reason = {r1, r2}
    File = {f1}
    Design = {g1}
    Outcome = {"ELIGIBLE", "NOT_ELIGIBLE"}
    Verdict = {"PASS"}
    Handler = {h1, h2}
    Calls = {"template", "issue", "attach", "revoke", "verify"}
    Draws = 2
    MaxVersions = 2
SYMMETRY Handlers
INVARIANTS TypeOK WithdrawnWithReason DerivedNotAuthored MadeFromReleased VersionsGapless
PROPERTY KeepsRegister
