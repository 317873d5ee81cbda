----------------------------- MODULE MCChannels -----------------------------
(***************************************************************************)
(* An instance of the two channels for TLC.  A bot's credential is one of  *)
(* Telegram or of Discord: the gateway of a Telegram bot was never         *)
(* started, and nobody writes to the Telegram side of a Discord bot.       *)
(***************************************************************************)
EXTENDS TelegramPolling, DiscordGateway

CONSTANTS p1, p2

Init == \/ TelegramInit /\ DiscordIdle
        \/ TelegramIdle /\ DiscordInit
Next == \/ TelegramNext /\ UNCHANGED discordVars
        \/ DiscordNext /\ UNCHANGED telegramVars

Spec == Init /\ [][Next]_<<telegramVars, discordVars>>
             /\ TelegramFairness /\ DiscordFairness

TypeOK == TelegramTypeOK /\ DiscordTypeOK
=============================================================================
