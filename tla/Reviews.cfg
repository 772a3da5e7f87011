SPECIFICATION Spec
CONSTANTS
    ann = ann
    bob = bob
    t1 = t1
    t2 = t2
    mod1 = mod1
    f1 = f1
    f2 = f2
    NoOne = NoOne
    Customer = {ann, bob}
    Tab = {t1, t2}
    Moderator = {mod1}
    Photo = {f1}
    MaxPhotos = 1
    MaxRating = 2
SYMMETRY Interchangeable
INVARIANTS
    RatingAgrees
    ApprovedAsRead
    PhotosHaveFiles
    ClosedShowsNothing
CHECK_DEADLOCK FALSE
