------------------------------ MODULE MCPolicy ------------------------------
(* Policy over the four tools of the repository and one it does not know.   *)
EXTENDS Policy

RepositoryTools == {"echo", "file_read", "file_list", "file_write", "shell"}
RepositoryFileTools == {"file_read", "file_list", "file_write"}
RepositoryRisky == {"file_write", "shell"}
=============================================================================
