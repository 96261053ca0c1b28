------------------------------ MODULE RadioInv ------------------------------
(***************************************************************************)
(* The inductive invariant of the radio's set-up: whose OK it can be that  *)
(* write_command() reads.                                                  *)
(***************************************************************************)
EXTENDS Radio

SettingUp == {"flush", "send", "delay", "read"}

(* What write_command() may still come to read of what has been sent.      *)
Coming == input \o wire

NoOk(s)  == \A k \in DOMAIN s : s[k] # "OK"
OneOk(s) == \A j, k \in DOMAIN s : s[j] = "OK" /\ s[k] = "OK" => j = k

AcceptedTo(m) == \A k \in 1 .. m : Commands[k] \in accepted

(* While no command has failed, the ones before this are accepted.         *)
EachAccepted ==
  /\ stat /\ pc \in SettingUp => AcceptedTo(n - 1)
  /\ stat /\ pc = "up" => AcceptedTo(Len(Commands))
  /\ is_ok_ => AcceptedTo(BeginCommands)
  /\ pc = "up" => stat \/ allow

(* While no command has failed, the OK of each before this has been read,  *)
(* and an OK that is there, or still comes, is the reply to this one.      *)
OkIsOfThis ==
  stat =>
    /\ pc \in {"flush", "send"} => NoOk(Coming)
    /\ pc \in {"delay", "read"} =>
         \/ NoOk(Coming) /\ ("OK" \in seen => Commands[n] \in accepted)
         \/ OneOk(Coming) /\ "OK" \notin seen /\ Commands[n] \in accepted

(* The module is not spoken to outside its config mode.                    *)
Listens ==
  /\ pc \in SettingUp => config_pin_ = LOW
  /\ pc = "read" => index < BufSize

(* With plain replies in time there is never more than one of them about,  *)
(* and at most the line feed of the one before.                            *)
InTime ==
  ~late /\ ~refused =>
    /\ stat /\ pc \notin {"stuck", "undefined"}
    /\ pc = "flush" => wire = <<>>
    /\ pc = "send" => input = <<>> /\ wire = <<>>
    /\ pc = "delay" => Coming \in Accepting
    /\ pc = "read" =>
         /\ wire = <<>>
         /\ \/ input \in Accepting /\ index = 0 /\ seen = {}
            \/ input \in {<<"CR">>, <<"CR", "LF">>} /\ index = 1 /\ seen = {"OK"}

IInv ==
  /\ TypeOK /\ EachAccepted /\ OkIsOfThis /\ Listens /\ InTime
  /\ pc = "delay" => index = 0 /\ seen = {}
=============================================================================
