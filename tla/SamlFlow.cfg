CONSTANTS
    Faults = {"duplicate_challenge", "restart", "reauth", "bare_push", "get", "restart_in_login", "refused", "malformed", "openvpn_fatal", "openvpn_exits", "browser_fails", "bad", "silent", "browser_gone", "saml_timeout"}
    MaxBreaks = 3
    MaxExtra = 1
SPECIFICATION FairSpec
INVARIANTS TypeOK IInv AssertionMatches CooperativeLoginHolds AddressIsCurrent
PROPERTIES ConfiguredFromConnection BrowserOncePerChallenge ForgottenAfterConnect NeverLeftWaiting
CHECK_DEADLOCK FALSE
