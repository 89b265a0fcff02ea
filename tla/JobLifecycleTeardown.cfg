SPECIFICATION Spec
PROPERTY DeleteEndsInTeardown
