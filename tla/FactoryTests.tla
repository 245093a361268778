----------------------------- MODULE FactoryTests ------------------------------
(***************************************************************************)
(* The production test mode (factory/tests.cpp).  The commands run in the  *)
(* System task, where the shell is; factory_test_key_process runs in the   *)
(* idle callback of the Audio task, which also hears the keys, and         *)
(* Battery::poll applies the charge limit.  Commands that only print, or   *)
(* that only ask the Bluetooth task, leave this state alone and are left   *)
(* out.                                                                    *)
(***************************************************************************)
EXTENDS Integers

CONSTANTS
    TestKeys,    \* the keys that have to be pressed
    PromptWait,  \* 8 s and 30 s, in units of time
    KeyWait

ASSUME TestsAssumption == {PromptWait, KeyWait} \subseteq Nat \ {0} /\ PromptWait < KeyWait

VARIABLES
    testMode, ledTest, keyTest, \* test_mode_activated, led_test_activated, key_test_activated
    prompt,     \* power_on_with_prompt
    startAge,   \* board_get_ms_since(key_test_start_time); NotStarted stands for 0
    keys,       \* test_keys_pressed
    finishing,  \* factory_test_key_process has left its first part
    limit,      \* the property ChargeLimitMode
    applied,    \* s_prev_charge_limit_state, and the charger's inhibit bit
    above,      \* the battery level is above 70 % and the charger is active
    testAge     \* history: time since A8 began the key test

tests == <<testMode, ledTest, keyTest, prompt, startAge, keys, finishing, limit, applied, above, testAge>>

NotStarted == -1
TestAges == 0..KeyWait
Older(a) == IF a \in 0..KeyWait - 1 THEN a + 1 ELSE a

TestsTypeOK ==
    /\ {testMode, ledTest, keyTest, prompt, finishing, limit, applied, above} \subseteq BOOLEAN
    /\ startAge \in TestAges \cup {NotStarted} /\ keys \subseteq TestKeys
    /\ testAge \in TestAges

TestsInit ==
    /\ testMode = FALSE /\ ledTest = FALSE /\ keyTest = FALSE /\ prompt = FALSE /\ finishing = FALSE
    /\ startAge = NotStarted /\ keys = {} /\ testAge = 0
    /\ limit = FALSE /\ applied = FALSE /\ above \in BOOLEAN
-----------------------------------------------------------------------------
\* mutant: a key test without a prompt loses its start
OngoingPrompt == prompt

Ongoing == keyTest \/ prompt

TestOver == keys = TestKeys \/ startAge >= KeyWait

\* factory_test_key_process up to its last condition; a command of the System
\* task may come before that.
KeyProcess ==
    /\ ~finishing /\ Ongoing
    /\ finishing' = TRUE
    /\ IF startAge = NotStarted
       THEN startAge' = 0 /\ UNCHANGED <<keyTest, prompt>>
       ELSE /\ keyTest' = (keyTest /\ ~(TestOver /\ ~prompt))
            /\ prompt' = (prompt /\ startAge < PromptWait)
            /\ startAge' = startAge
    /\ UNCHANGED <<testMode, ledTest, keys, limit, applied, above, testAge>>

KeyProcessEnds ==
    /\ finishing /\ finishing' = FALSE
    /\ IF Ongoing THEN UNCHANGED <<startAge, keys>> ELSE startAge' = NotStarted /\ keys' = {}
    /\ UNCHANGED <<testMode, ledTest, keyTest, prompt, limit, applied, above, testAge>>

\* The handlers of get_handler_mapper, which replace all others while the key
\* test runs; the only other one that concerns this module is POWER+BT.
KeyPressed ==
    \/ \E k \in TestKeys : keyTest /\ keys' = keys \cup {k} /\ UNCHANGED prompt
    \/ ~keyTest /\ prompt' = TRUE /\ UNCHANGED keys
KeyHandler == KeyPressed /\ UNCHANGED <<testMode, ledTest, keyTest, startAge, finishing, limit, applied, above, testAge>>

\* Battery::poll: the limit is passed on above 70 %, while the charger is active.
ApplyLimit ==
    /\ limit # applied /\ above /\ applied' = limit
    /\ UNCHANGED <<testMode, ledTest, keyTest, prompt, startAge, keys, finishing, limit, above, testAge>>

LevelMoves ==
    /\ above' = ~above
    /\ UNCHANGED <<testMode, ledTest, keyTest, prompt, startAge, keys, finishing, limit, applied, testAge>>
-----------------------------------------------------------------------------
\* reset_prod_test_mode
ResetTestMode(mode) ==
    /\ testMode' = mode /\ keyTest' = FALSE /\ ledTest' = FALSE /\ limit' = FALSE

\* AZ, and AX, AG and Ag
EnterTestMode == IF testMode THEN ResetTestMode(TRUE) ELSE testMode' = TRUE /\ UNCHANGED <<keyTest, ledTest, limit>>
ExitTestMode == testMode /\ ResetTestMode(FALSE)

\* A1 to A4, and A5
LedTest == testMode /\ ledTest' = TRUE /\ UNCHANGED <<testMode, keyTest, limit>>
LedTestEnds == testMode /\ ledTest /\ ledTest' = FALSE /\ UNCHANGED <<testMode, keyTest, limit>>

\* A8
KeyTest == testMode /\ keyTest' = TRUE /\ UNCHANGED <<testMode, ledTest, limit>>

\* Ap and AQ
SetLimit == testMode /\ limit' \in BOOLEAN /\ UNCHANGED <<testMode, ledTest, keyTest>>

TestCommand ==
    /\ \/ EnterTestMode \/ ExitTestMode \/ LedTest
       \/ LedTestEnds \/ KeyTest \/ SetLimit
    /\ testAge' = IF keyTest' /\ ~keyTest THEN 0 ELSE testAge
    /\ UNCHANGED <<prompt, startAge, keys, finishing, applied, above>>

TimePasses ==
    /\ startAge' = Older(startAge) /\ testAge' = IF keyTest THEN Older(testAge) ELSE testAge
    /\ UNCHANGED <<testMode, ledTest, keyTest, prompt, keys, finishing, limit, applied, above>>

TestsNext == KeyProcess \/ KeyProcessEnds \/ KeyHandler \/ ApplyLimit \/ LevelMoves \/ TestCommand \/ TimePasses

\* The Audio task gets idle again and again, and its callback ends.
TestsFairness == WF_tests(KeyProcess) /\ WF_tests(KeyProcessEnds) /\ WF_tests(TimePasses)

TestsSpec == TestsInit /\ [][TestsNext]_tests
-----------------------------------------------------------------------------
\* A key test ends, whatever commands come and whatever prompt is pending: it
\* takes the keys away from all their handlers, POWER's too, so that one that
\* went on would leave a speaker that cannot be switched off.
KeyTestEnds == keyTest ~> ~keyTest

\* The key test fails after the 30 seconds that the comment in
\* factory_test_key_process promises.  It does not: reset_prod_test_mode
\* leaves key_test_start_time and the keys of the test that it aborts.
KeyTestHasItsTime == [][KeyProcess /\ keyTest /\ ~keyTest' /\ keys # TestKeys => testAge >= KeyWait]_tests
=============================================================================
