-------------------------------- MODULE Display --------------------------------
(***************************************************************************)
(* The OLED of smartdoor_v8.ino and the time it shows: tm as last read     *)
(* from the clock chip, the header with date and time, and the message     *)
(* below it.  Of the time only the minute is kept, which is what           *)
(* updateTime() compares.  A reading that fails leaves tm as it is, so a   *)
(* reading returns some minute, which may be the old one.                  *)
(***************************************************************************)
CONSTANT Minutes

VARIABLES
  tm,       \* tm.Minute
  header,   \* the minute on the screen
  message   \* what stands below it

shown == <<tm, header, message>>

Attach == <<"ATTACH", "RFCARD">>

\* printDateAndTime(): RTC.read(tm), and the header is drawn anew
printDateAndTime ==
  /\ tm' \in Minutes
  /\ header' = tm'

\* known: isUser(code) finds the code that was read last
LEDprint(text, known) ==
  /\ printDateAndTime
  /\ message' = CASE text = "reset"  -> Attach
                  [] text = "Denied" -> <<"Access", "Denied">>
                  [] text \notin {"reset", "Denied"} /\ known -> <<"Hello", text>>
                  [] OTHER -> <<text>>

\* Fault: the minute is compared after tm has been read
CompareLate ==
  /\ tm' \in Minutes
  /\ UNCHANGED <<header, message>>

\* updateTime(tm.Minute): another minute clears the message, whatever it is
updateTime ==
  \/ UNCHANGED shown
  \/ \E now \in Minutes \ {tm} : LEDprint("reset", FALSE)

\* setup() ends with LEDprint("reset")
DisplayBoots == tm \in Minutes /\ header = tm /\ message = Attach
=============================================================================
