SPECIFICATION Spec
CONSTANTS
    Widths <- Widths4
    Shed <- Shed2
    Keep <- Keep2
    Event <- Events
    Live <- LiveEvents
    Upload <- Uploads
    CliUpload <- CliUploads
    RowsOf <- Reports
    Query <- Queries
    RawLimit = 3
    MaxStarts = 2
    MaxCopies = 2
    NoUpload = NoUpload
INVARIANT AnyZoomShows
CHECK_DEADLOCK FALSE
