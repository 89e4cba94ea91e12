---------------------------- MODULE MCRemoteFile ----------------------------
EXTENDS RemoteFile

CONSTANTS a, b

Kind(sftp, rename, room, inotify) ==
    [sftp |-> sftp, rename |-> rename, room |-> room, inotify |-> inotify]

\* SFTP that replaces, SFTP that does not or not at all, and a shell, watching either way, with
\* and without a disk that fills.
MCServers == {
    Kind(TRUE, "overwrites", FALSE, TRUE), Kind(TRUE, "refuses", TRUE, FALSE),
    Kind(TRUE, "fails", TRUE, FALSE), Kind(FALSE, "fails", TRUE, TRUE), Kind(FALSE, "fails", FALSE, FALSE)}

\* The most common one.
MCOverwriting == {Kind(TRUE, "overwrites", TRUE, TRUE)}
=============================================================================
