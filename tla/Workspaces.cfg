\* One user, two versions of the template with a preserved and a managed file,
\* one upload with its text; commands and writes fail, requests are late and
\* either process may die once.
SPECIFICATION Spec
CONSTANTS
    u1 = u1  master = master  prompt = prompt  added = added  r1 = r1
    Users = {u1}
    Files = {master, prompt}
    Preserved = {master}
    Since <- AddedLater
    MaxVersion = 2
    Uploads = {r1}
    Uploader <- OneUser
    Extracted = {r1}
    Limit = 2
    Faults = {"io", "late"}
    MaxCrashes = 1
CONSTRAINT Apart
INVARIANTS TypeOK AccountIsBacked RecordedIsStored
PROPERTIES PersonalFilesKept DisabledIsQuiet CommitIsExplained
\* An id whose account could not be made is not used again: nothing is left to do.
CHECK_DEADLOCK FALSE
