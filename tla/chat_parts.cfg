SPECIFICATION MCSpec
CONSTANTS
    h1 = h1
    h2 = h2
    h3 = h3
    k1 = k1
    k2 = k2
    p1 = p1
    p2 = p2
    p3 = p3
    a1 = a1
    u1 = u1
    u2 = u2
    t1 = t1
    Handlers = {h1, h2, h3}
    MaxRow = 2
    Keys = {k1, k2}
    NoKey = nokey
    Pictures = {p1, p2, p3}
    Albums = {a1}
    AlbumOf <- MCAlbumOf
    Single = single
    Captions = {{p1}, {p1, p3}}
    MaxJob = 3
    Texts = {t1}
    Updates = {u1, u2}
    MaxUpdate = 4
    MaxSession = 2
    MaxChat = 1
    m1 = m1
    m2 = m2
    m3 = m3
    s1 = s1
    MenuUpdates = {m1, m2, m3}
    Named = {s1}
    MaxAsk = 2
CHECK_DEADLOCK FALSE
INVARIANTS TypesOK BackCancels AlbumPartOnce SavedIsKept OneActive ChatInOneSession
PROPERTIES NeverReopened PictureHandled PromptFits
