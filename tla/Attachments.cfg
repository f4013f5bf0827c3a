\* A file of two artifacts and two copies of it, beside a cleanup or a backup.
SPECIFICATION Spec

CONSTANTS
    Uploads = {"scan"}
    Copies = {"copy", "again"}
    Parts <- MCParts

INVARIANTS
    TypeOK
    RowMatchesFile
    MessageKeepsFiles

PROPERTIES
    BundleComplete
    DraftSettles
