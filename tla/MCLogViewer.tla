---- MODULE MCLogViewer ----
\* LogViewer with the records of the old log file.
EXTENDS LogViewer

MCOldLog == <<"hand", "prompt">>

\* The histories excuse what is not followed here.  Once two handlers were
\* about to start the refresh thread no property claims anything, and the two
\* threads are followed over one load of the old file; once the dictionary has
\* changed under a thread only NoLineListedThrice claims something, and one
\* record of the live file will do.
Followed ==
  /\ doubled => log[LIVE] = <<>> /\ \A c \in Loads \ {1} : load[c].at = "ready"
  /\ collided => Len(log[LIVE]) <= 1
====
