SPECIFICATION Spec
CONSTANTS
    Creds = {a1}
    Calls = {d1, d2}
    Envelopes <- MCEnvelopes
    Undated <- MCUndated
INVARIANT TypeOK
INVARIANT AllowedIsComplete
INVARIANT AuthorizedIsObserved
