------------------------------ MODULE WriteBehind ------------------------------
(***************************************************************************)
(* What asynchronous persistence promises, whoever does the saving: the    *)
(* disk only ever receives images of the memory, one at a time and in the  *)
(* order they were taken; a change of the memory is owed to the disk until *)
(* an image is taken that holds it, and that image is written or its write *)
(* fails.                                                                  *)
(***************************************************************************)
CONSTANTS
    Contents,   \* what memory and disk may hold
    Blank,      \* what the memory starts as when the disk cannot be read
    NoImage     \* nothing is being written

VARIABLES
    mem, disk,
    image,      \* the image being written, or NoImage
    owed,       \* the memory may have changed since the last image
    failed,     \* the last write failed
    unread      \* the disk could not be read and has not been written since

wbVars == <<mem, disk, image, owed, failed, unread>>

\* The memory starts as what the disk holds, or as a part of it that the
\* disk is owed.
WBInit ==
    /\ image = NoImage
    /\ mem \in Contents
    /\ disk \in Contents
    /\ owed \in BOOLEAN
    /\ ~owed => mem = disk
    /\ failed = FALSE
    /\ unread = FALSE

Change ==
    /\ mem' \in Contents
    /\ owed' = TRUE
    /\ UNCHANGED <<disk, image, failed, unread>>

\* The image holds every change so far; more may be owed by others.
Take ==
    /\ owed /\ image = NoImage
    /\ image' = mem
    /\ owed' \in BOOLEAN
    /\ UNCHANGED <<mem, disk, failed, unread>>

Commit ==
    /\ image # NoImage
    /\ disk' = image
    /\ image' = NoImage
    /\ failed' = FALSE
    /\ unread' = FALSE
    /\ UNCHANGED <<mem, owed>>

\* A failed write is forgotten: nothing is owed on account of it.
Drop ==
    /\ image # NoImage
    /\ image' = NoImage
    /\ failed' = TRUE
    /\ UNCHANGED <<mem, disk, owed, unread>>

\* The process dies and starts again from the disk.
Reopen ==
    /\ image' = NoImage
    /\ mem' \in Contents
    /\ owed' \in BOOLEAN
    /\ ~owed' => mem' = disk
    /\ failed' = FALSE
    /\ unread' = FALSE
    /\ UNCHANGED disk

\* It starts again and cannot read the disk, which is owed nothing for that.
ReopenBlank ==
    /\ image' = NoImage
    /\ mem' = Blank
    /\ owed' = FALSE
    /\ failed' = FALSE
    /\ unread' = TRUE
    /\ UNCHANGED disk

WBNext == Change \/ Take \/ Commit \/ Drop \/ Reopen \/ ReopenBlank

WBSpec == WBInit /\ [][WBNext]_wbVars

-----------------------------------------------------------------------------

\* When nothing is owed and nothing is being written, the disk has it all,
\* unless it could not be read and the memory has not changed since.
NothingLost ==
    ~owed /\ image = NoImage /\ ~failed => disk = mem \/ (unread /\ mem = Blank)
=============================================================================
