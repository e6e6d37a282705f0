SPECIFICATION Spec
INVARIANTS TypeOK MailedCodeAccepted RestrictedRefused RestrictionCutsSessions AuthIsLimited
PROPERTIES ImplementsCodeStore StaleCodeRefused
CONSTANTS
    None = None
    \* Two keys; three codes let one be replaced and another be used.
    Keys = {"k1", "k2"}
    Codes = {1, 2, 3}
    FewerCodes = {1, 2}
    TTL = 2
    \* Two users with three sessions between them.
    Users = {"u1", "u2"}
    Tokens = {1, 2, 3}
    Clients = {"c1"}
    GeneralMax = 4
    AuthMax = 2
    Requests = {"q1"}
