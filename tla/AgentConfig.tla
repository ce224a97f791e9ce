----------------------------- MODULE AgentConfig -----------------------------
(***************************************************************************)
(* AgentConfig::load() (src/AgentConfig.cpp): which configuration files    *)
(* the agent accepts and what it makes of their targets on its platform.   *)
(* A field the file does not give is "".                                   *)
(***************************************************************************)
EXTENDS Integers, Sequences, SequencesExt

\* A file as it is read: http_port and bind_address with their defaults filled
\* in, and the declarations in their order.
isConfigFile(file) ==
    /\ file.port \in Int /\ file.bind \in STRING
    /\ DOMAIN file.targets = 1..Len(file.targets)

isComplete(t) == t.project # "" /\ t.service # "" /\ t.repository # "" /\ t.healthUrl # ""

\* Anything else makes load() return false, and main() return 2. A project
\* declared twice refuses the whole file.
isAccepted(file) ==
    /\ file.port \in 1..65535
    /\ file.bind = "127.0.0.1"
    /\ \A i \in DOMAIN file.targets :
          /\ isComplete(file.targets[i])
          /\ \A j \in 1..(i - 1) : file.targets[j].project # file.targets[i].project

\* Directories, as far as it matters where they lead: the one the service runs
\* from, its place by the convention of Linux, the default of Windows, which is
\* the text "%ProgramData%/<service>" and stays that text, or any other.
Own == "own"
Opt == "/opt/<service>"
Unexpanded == "%ProgramData%/<service>"

\* The service manager and the directory are the platform's. On Windows only
\* what the file leaves open is.
derive(t, windows) ==
    IF windows
    THEN [t EXCEPT !.serviceManager = IF @ \in {"scm", "task"} THEN @ ELSE "task",
                   !.appDir = IF @ = "" THEN Unexpanded ELSE @]
    ELSE [t EXCEPT !.serviceManager = "systemd", !.appDir = Opt]

targets(file, windows) == {derive(t, windows) : t \in ToSet(file.targets)}
=============================================================================
