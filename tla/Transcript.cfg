\* Three messages in three distributions of roles, and a code edit; one write of
\* Cursor, and any passage of time, while a page is assembled.
SPECIFICATION Spec
CONSTANTS
    Messages = 3
    Roles <- SomeRoles
    MaxClock = 2
    MaxEdits = 1
    MaxWrites = 1
INVARIANT TypeOK
INVARIANT NothingOldIsMissing
 
INVARIANT ResponseIsToTheLastQuestion
 
