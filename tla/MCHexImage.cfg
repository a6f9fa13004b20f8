CONSTANTS
    Lines <- MCLines
    FlashSize = 3
    Page = 4
    MaxLines = 4
SPECIFICATION Spec
INVARIANTS
    AdmitsExactlyImages
    SummaryIsTrue
