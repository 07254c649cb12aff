CONSTANTS
    Dsts <- MCDsts
    Methods = {0, 255}
    Replies <- MCReplies
    Payloads <- MCPayloads
SPECIFICATION Spec
INVARIANT RequestDelivered
INVARIANT ReplyFraming
