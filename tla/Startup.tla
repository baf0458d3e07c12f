------------------------------- MODULE Startup -------------------------------
(***************************************************************************)
(* How a node and a client of it get their settings: parse_jsonx (what it  *)
(* does with the lines that module Jsonx has stripped), load,              *)
(* load_with_env and password_from_env of config.py, main of               *)
(* cli/server.py and _connect of cli/client.py.                            *)
(*                                                                         *)
(* First the server starts, then a client, in the same directory and with  *)
(* the same environment. TLS options are left out; what --port takes is    *)
(* not validated, so a port out of range is a value like any other there.  *)
(*                                                                         *)
(* Definitions introduced by "Slip" are wrong variants of the definition   *)
(* that follows. Nothing uses them; put in its place, each makes a         *)
(* property fail, which shows that the property can.                       *)
(***************************************************************************)
EXTENDS Naturals, Sequences

CONSTANTS
  None,        \* None, and a key or variable that is absent
  Empty,       \* ""
  NotARecord,  \* a line that is no JSON object
  Good,        \* values ServerConfig accepts, for every field alike
  Bad,         \* a value it refuses
  Files,       \* contents of config.cfg to consider: sequences of lines,
  Environments,  \* values of PRIESTLY_PASSWD and PASSWD,
  ServerOptions, \* command lines of the server
  ClientOptions  \* and of the client

\* Any other line is a function from some keys to their values.
Fields == {"server_name", "host", "port", "password"}
Record(line) == line # NotARecord

ASSUME StartupAssumption ==
  /\ None # Empty /\ {None, Empty, Bad} \cap Good = {}
  /\ \A content \in Files : Len(content) \in Nat
  /\ Environments \subseteq [{"PRIESTLY_PASSWD", "PASSWD"} -> Good \cup {None, Empty}]
  /\ \A o \in ServerOptions : {o.server_name, o.host, o.port} \subseteq Good \cup {None, Empty}
  /\ \A o \in ClientOptions : {o.host, o.port, o.password} \subseteq Good \cup {None, Empty}

VARIABLES
  file,    \* the lines of config.cfg, or None
  env,     \* os.environ
  server_args, client_args,  \* the command lines
  stage,   \* which program runs, and how far it is
  lineno,  \* parse_jsonx: lines read so far
  merged,  \* parse_jsonx: merged
  node,    \* the settings the server runs with
  dial     \* where the client connects, and the password it offers

inputs == <<file, env, server_args, client_args>>
startupVars == <<inputs, stage, lineno, merged, node, dial>>

-----------------------------------------------------------------------------
\* dict.update
Updated(values, record) ==
  [f \in DOMAIN values \cup DOMAIN record |->
     IF f \in DOMAIN record THEN record[f] ELSE values[f]]

\* ServerConfig(), with values for the fields some record has.
Default == [f \in Fields |-> IF f = "password" THEN None ELSE "default"]
Config(values) == Updated(Default, values)

Falsy(v) == v \in {None, Empty}
Either(v, w) == IF Falsy(v) THEN w ELSE v

\* password_from_env()
PasswordFromEnv ==
  LET password == Either(env["PRIESTLY_PASSWD"], env["PASSWD"])
  IN  Either(password, None)

StartupStart(content, variables, started, called) ==
  /\ file = content
  /\ env = variables
  /\ server_args = started
  /\ client_args = called
  /\ stage = "server loads"
  /\ lineno = 0 /\ merged = <<>>
  /\ node = None /\ dial = None

StartupInit ==
  \E content \in Files \cup {None}, variables \in Environments,
     started \in ServerOptions, called \in ClientOptions :
    StartupStart(content, variables, started, called)

Loading == stage \in {"server loads", "client loads"}
Lines == IF file = None THEN <<>> ELSE file

\* merged.update(record)
ReadLine ==
  /\ Loading
  /\ lineno < Len(Lines) /\ Record(Lines[lineno + 1])
  /\ lineno' = lineno + 1
  /\ merged' = Updated(merged, Lines[lineno + 1])
  /\ UNCHANGED <<inputs, stage, node, dial>>

\* ServerConfig's types, bounds and extra="forbid".
Valid(f, v) ==
  /\ f \in Fields
  /\ \/ v \in Good
     \/ v = Empty /\ f # "port"
     \/ v = None /\ f = "password"

\* parse_jsonx or model_validate raises, and the program ends.
LoadFails ==
  /\ Loading
  /\ \/ lineno < Len(Lines) /\ ~ Record(Lines[lineno + 1])
     \/ /\ lineno = Len(Lines)
        /\ \E f \in DOMAIN merged : ~ Valid(f, merged[f])
  /\ stage' = "failed"
  /\ UNCHANGED <<inputs, lineno, merged, node, dial>>

\* load returns cfg.
Loaded ==
  /\ lineno = Len(Lines)
  /\ \A f \in DOMAIN merged : Valid(f, merged[f])

\* Slip: the environment only fills in for a password the file lacks.
FallbackOverride(cfg) == Either(cfg.password, PasswordFromEnv)

\* load_with_env: the password the server runs with.
Override(cfg) == Either(PasswordFromEnv, cfg.password)

\* main; make_handler sees to it that an empty password is none.
Serve ==
  /\ stage = "server loads"
  /\ Loaded
  /\ LET cfg == Config(merged)
     IN  node' = [server_name |-> Either(server_args.server_name, cfg.server_name),
                  host |-> Either(server_args.host, cfg.host),
                  port |-> Either(server_args.port, cfg.port),
                  password |-> Override(cfg)]
  /\ stage' = "client loads"
  /\ lineno' = 0 /\ merged' = <<>>
  /\ UNCHANGED <<inputs, dial>>

Required == ~ Falsy(node.password)

\* _connect, which reaches the node if it has its address. The password of the
\* configuration file is the server's alone.
Connect ==
  /\ stage = "client loads"
  /\ Loaded
  /\ LET cfg == Config(merged)
         host == Either(client_args.host, cfg.host)
         port == Either(client_args.port, cfg.port)
         password == Either(client_args.password, PasswordFromEnv)
         reached == host = node.host /\ port = node.port
     IN  /\ dial' = [host |-> host, port |-> port,
                     password |-> IF reached /\ Required THEN password ELSE None]
         /\ stage' = IF ~ reached THEN "not reached"
                     ELSE IF Required /\ Falsy(password) THEN "exit 2"
                     ELSE "connected"
  /\ UNCHANGED <<inputs, lineno, merged, node>>

StartupNext == ReadLine \/ LoadFails \/ Serve \/ Connect

StartupSpec == StartupInit /\ [][StartupNext]_startupVars
-----------------------------------------------------------------------------
\* The value that the last record with the field gives it.
Latest(f) ==
  LET having == {k \in 1 .. Len(Lines) : f \in DOMAIN Lines[k]}
  IN  IF having = {} THEN Default[f]
      ELSE Lines[CHOOSE k \in having : \A j \in having : j <= k][f]

SetInEnv(name) == env[name] \in Good

\* A node and a client that share config.cfg and the environment fit together
\* without options: one address, and one password if the environment has one,
\* whichever variable holds it and whatever the lines of the file override.
\* The node is open exactly if neither gives it a password: an empty one, here
\* or there, does not lock it (password_from_env's docstring). The client gets
\* no further than HELLO_ACK, for want of a password, exactly if the node has one
\* from the file alone and no option gives the client one.
NodeAndClientFit ==
  /\ node # None =>
       (Required <=> \/ SetInEnv("PRIESTLY_PASSWD") \/ SetInEnv("PASSWD")
                     \/ Latest("password") \in Good)
  /\ dial # None =>
       /\ \A f \in {"host", "port"} :
            Falsy(server_args[f]) /\ Falsy(client_args[f]) =>
              node[f] = Latest(f) /\ dial[f] = Latest(f)
       /\ (stage = "connected" /\ Required /\ Falsy(client_args.password)) =>
            dial.password = node.password
       /\ stage # "not reached" =>
            (stage = "exit 2" <=>
               /\ Latest("password") \in Good /\ Falsy(client_args.password)
               /\ ~ SetInEnv("PRIESTLY_PASSWD") /\ ~ SetInEnv("PASSWD"))
=============================================================================
