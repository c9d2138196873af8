\* A file that is new in version 2 of the template; nothing fails.
SPECIFICATION Spec
CONSTANTS
    u1 = u1  master = master  prompt = prompt  added = added  r1 = r1
    Users = {u1}
    Files = {master, prompt, added}
    Preserved = {master}
    Since <- AddedLater
    MaxVersion = 2
    Uploads = {}
    Uploader <- OneUser
    Extracted = {}
    Limit = 0
    Faults = {}
    MaxCrashes = 0
PROPERTY UserWorkKept
CHECK_DEADLOCK FALSE
