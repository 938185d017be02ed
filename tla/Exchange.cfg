CONSTANTS
  Clients = {"openai_chat", "openai_responses", "anthropic", "gemini"}
  Upstreams = {"openai_chat", "openai_responses", "anthropic", "gemini"}
  Turns = 3
  Scripts <- AllScripts
SPECIFICATION ExchangeSpec
INVARIANTS TypesOK InOrder PiecesKept UsageTracked Bracketed AnswerAgrees
INVARIANTS SaidKept CallsKept ResultsAnswered AskedAsMeant AnswerKept
PROPERTY ProducerFreed
