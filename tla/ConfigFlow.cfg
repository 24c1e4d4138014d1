SPECIFICATION Spec
CONSTANTS
    Locks = {door, gate}
    Accounts = {jane_doe, janedoe, john}
    Slots = {first, second}
    Flows = {f1, f2}
    None = None
    jane_doe = jane_doe
    janedoe = janedoe
    john = john
    jane_id = jane_id
    john_id = john_id
    Slug <- MCSlug
INVARIANTS
    NoLockTwice
    IdentityFollowsData
PROPERTIES
    NothingIsReplaced
    EntriesKeepTheirAccount
SYMMETRY Symmetry
